---- MODULE Spec2Model ----
(***************************************************************************)
(* A model of the Apple Notes exporter (src/src/lib.rs, mirrored by        *)
(* src/src/main.rs): export_notes runs, for every note in order,           *)
(* extract_and_save_images, save_html, the HTML-to-Markdown conversion     *)
(* with the h1 repair, and save_note, against a filesystem tree.           *)
(*                                                                         *)
(* Text is a sequence of one-character strings.  In a note's HTML body a   *)
(* tag (and a character reference) is one token of the sequence, so that   *)
(* the parser below works on tokens while str::replace and str::contains   *)
(* work on the same sequence as text.  A path is a sequence of components  *)
(* relative to config.output_dir; a component is a text.                   *)
(***************************************************************************)
EXTENDS Integers, Sequences, FiniteSets, TLC

\* The longest list of notes the note source returns.
MaxNotes == 2

----------------------------------------------------------------------------
(* Text helpers *)

RECURSIVE Concat(_)
\* [String]::join(""): the texts of a sequence, one after another.
Concat(ss) ==
  IF ss = <<>> THEN <<>> ELSE Head(ss) \o Concat(Tail(ss))

RECURSIVE JoinWith(_, _)
\* [&str]::join(sep)
JoinWith(ss, sep) ==
  IF ss = <<>> THEN <<>>
  ELSE IF Len(ss) = 1 THEN Head(ss)
  ELSE Head(ss) \o sep \o JoinWith(Tail(ss), sep)

\* str::starts_with(prefix)
StartsWith(s, prefix) ==
  /\ Len(s) >= Len(prefix)
  /\ SubSeq(s, 1, Len(prefix)) = prefix

\* Whether pat occurs in s at position i.
MatchAt(s, pat, i) ==
  /\ i + Len(pat) - 1 <= Len(s)
  /\ SubSeq(s, i, i + Len(pat) - 1) = pat

\* str::contains(pat)
Contains(s, pat) ==
  \E i \in 1..(Len(s) + 1) : MatchAt(s, pat, i)

RECURSIVE ReplaceFrom(_, _, _, _)
ReplaceFrom(s, pat, rep, i) ==
  IF i > Len(s) THEN <<>>
  ELSE IF MatchAt(s, pat, i) THEN rep \o ReplaceFrom(s, pat, rep, i + Len(pat))
  ELSE <<s[i]>> \o ReplaceFrom(s, pat, rep, i + 1)

\* str::replace(pat, rep) for a non-empty pat: every non-overlapping
\* occurrence, found left to right, anywhere in the text.
Replace(s, pat, rep) == ReplaceFrom(s, pat, rep, 1)

RECURSIVE SplitFrom(_, _, _, _)
SplitFrom(s, sep, i, cur) ==
  IF i > Len(s) THEN <<cur>>
  ELSE IF s[i] = sep THEN <<cur>> \o SplitFrom(s, sep, i + 1, <<>>)
  ELSE SplitFrom(s, sep, i + 1, Append(cur, s[i]))

\* str::split(sep) collected: the pieces between the separators, empty
\* pieces included (one more piece than there are separators).
Split(s, sep) == SplitFrom(s, sep, 1, <<>>)

\* char::is_whitespace, on the characters of the model.
IsWhitespace(c) == c \in {" ", "\n", "\t", "\r"}

RECURSIVE TrimStart(_)
TrimStart(s) ==
  IF s # <<>> /\ IsWhitespace(Head(s)) THEN TrimStart(Tail(s)) ELSE s

RECURSIVE TrimEnd(_)
TrimEnd(s) ==
  IF s # <<>> /\ IsWhitespace(s[Len(s)])
  THEN TrimEnd(SubSeq(s, 1, Len(s) - 1)) ELSE s

\* str::trim()
Trim(s) == TrimEnd(TrimStart(s))

\* One line of str::lines(): a carriage return before the line feed goes
\* with the line end.
StripCr(l) ==
  IF l # <<>> /\ l[Len(l)] = "\r" THEN SubSeq(l, 1, Len(l) - 1) ELSE l

\* str::lines(): split at line feeds; the text after the last line feed is
\* a line only when it is not empty.
Lines(s) ==
  LET raw  == Split(s, "\n")
      kept == IF raw[Len(raw)] = <<>> THEN SubSeq(raw, 1, Len(raw) - 1) ELSE raw
  IN  [i \in 1..Len(kept) |->
         IF i < Len(raw) THEN StripCr(kept[i]) ELSE kept[i]]

\* line.starts_with('#')
StartsWithHash(l) == l # <<>> /\ Head(l) = "#"

RECURSIVE FilterNotHash(_)
\* .filter(|line| !line.starts_with('#')): the lines kept, in order.
FilterNotHash(ls) ==
  IF ls = <<>> THEN <<>>
  ELSE IF StartsWithHash(Head(ls)) THEN FilterNotHash(Tail(ls))
  ELSE <<Head(ls)>> \o FilterNotHash(Tail(ls))

----------------------------------------------------------------------------
(* Text constants *)

TxtDataImage   == <<"d","a","t","a",":","i","m","a","g","e">>
TxtPng         == <<"p","n","g">>
TxtAttachments == <<"a","t","t","a","c","h","m","e","n","t","s">>
TxtAttachment  == <<"a","t","t","a","c","h","m","e","n","t","-">>
TxtHtmlExt     == <<".","h","t","m","l">>
TxtMdExt       == <<".","m","d">>

----------------------------------------------------------------------------
(* base64::engine::general_purpose::STANDARD.decode *)

B64Alphabet ==
  << "A","B","C","D","E","F","G","H","I","J","K","L","M","N","O","P",
     "Q","R","S","T","U","V","W","X","Y","Z","a","b","c","d","e","f",
     "g","h","i","j","k","l","m","n","o","p","q","r","s","t","u","v",
     "w","x","y","z","0","1","2","3","4","5","6","7","8","9","+","/" >>

IsB64Symbol(c) == \E i \in 1..Len(B64Alphabet) : B64Alphabet[i] = c

\* The six bits a symbol stands for.
B64Value(c) == (CHOOSE i \in 1..Len(B64Alphabet) : B64Alphabet[i] = c) - 1

\* One group of four characters: its bytes, or ok = FALSE.  Padding is
\* accepted only in the last group, as "xx==" or "xxx=", and then only when
\* the bits that are not part of a byte are zero.
B64Group(g, last) ==
  LET v(i) == B64Value(g[i])
      b1   == v(1) * 4 + (v(2) \div 16)
      b2   == (v(2) % 16) * 16 + (v(3) \div 4)
      b3   == (v(3) % 4) * 64 + v(4)
      bad  == [ok |-> FALSE, bytes |-> <<>>]
  IN  IF ~(IsB64Symbol(g[1]) /\ IsB64Symbol(g[2])) THEN bad
      ELSE IF g[3] = "=" /\ g[4] = "="
        THEN IF last /\ v(2) % 16 = 0
             THEN [ok |-> TRUE, bytes |-> <<b1>>] ELSE bad
      ELSE IF ~IsB64Symbol(g[3]) THEN bad
      ELSE IF g[4] = "="
        THEN IF last /\ v(3) % 4 = 0
             THEN [ok |-> TRUE, bytes |-> <<b1, b2>>] ELSE bad
      ELSE IF ~IsB64Symbol(g[4]) THEN bad
      ELSE [ok |-> TRUE, bytes |-> <<b1, b2, b3>>]

RECURSIVE B64Groups(_)
B64Groups(s) ==
  IF s = <<>> THEN [ok |-> TRUE, bytes |-> <<>>]
  ELSE LET g    == B64Group(SubSeq(s, 1, 4), Len(s) = 4)
           rest == B64Groups(SubSeq(s, 5, Len(s)))
       IN  IF g.ok /\ rest.ok
           THEN [ok |-> TRUE, bytes |-> g.bytes \o rest.bytes]
           ELSE [ok |-> FALSE, bytes |-> <<>>]

\* base64.decode(parts[1]): the bytes, or ok = FALSE for a DecodeError
\* (a length that is no multiple of four, a character outside the
\* alphabet, misplaced padding, non-zero trailing bits).
B64Decode(s) ==
  IF Len(s) % 4 # 0 THEN [ok |-> FALSE, bytes |-> <<>>] ELSE B64Groups(s)

----------------------------------------------------------------------------
(* scraper's Html::parse_document and select, on the tokens of the model *)

TagImgSrc  == "<img src=\""     \* opens an img element's src value
TagImgEnd  == "\">"             \* closes the src value and the img tag
TagImgBare == "<img alt=x>"     \* an img element with no src attribute
TagComment == "<!--"
TagCommentEnd == "-->"
RefComma   == "&#44;"           \* the character reference of a comma

\* The opening tags of the model with the name of their element; an h1 tag
\* with an attribute is an h1 element whose text is not the text "<h1>".
OpenTags == {"<p>", "<h1>", "<h1 id=t>", "<h3>"}
ElementOf(tag) ==
  CASE tag = "<p>"        -> "p"
    [] tag = "<h1>"       -> "h1"
    [] tag = "<h1 id=t>"  -> "h1"
    [] tag = "<h3>"       -> "h3"
CloseTagOf(tag) ==
  CASE tag = "<p>"        -> "</p>"
    [] tag = "<h1>"       -> "</h1>"
    [] tag = "<h1 id=t>"  -> "</h1>"
    [] tag = "<h3>"       -> "</h3>"

\* The position of the first token tok at or after i; Len + 1 when none.
RECURSIVE FindFrom(_, _, _)
FindFrom(s, tok, i) ==
  IF i > Len(s) THEN Len(s) + 1
  ELSE IF s[i] = tok THEN i ELSE FindFrom(s, tok, i + 1)

\* The parser decodes character references in attribute values and text.
DecodeRefs(s) == [i \in 1..Len(s) |-> IF s[i] = RefComma THEN "," ELSE s[i]]

\* The document's nodes from token i on, in document order: comments are
\* dropped, an img element carries its decoded src (or none), every other
\* element its decoded text, and text outside elements is a text node.
RECURSIVE ParseFrom(_, _)
ParseFrom(s, i) ==
  IF i > Len(s) THEN <<>>
  ELSE IF s[i] = TagComment
    THEN ParseFrom(s, FindFrom(s, TagCommentEnd, i + 1) + 1)
  ELSE IF s[i] = TagImgBare
    THEN <<[tag |-> "img", has_src |-> FALSE, text |-> <<>>]>>
         \o ParseFrom(s, i + 1)
  ELSE IF s[i] = TagImgSrc
    THEN LET j == FindFrom(s, TagImgEnd, i + 1)
         IN  <<[tag |-> "img", has_src |-> TRUE,
                text |-> DecodeRefs(SubSeq(s, i + 1, j - 1))]>>
             \o ParseFrom(s, j + 1)
  ELSE IF s[i] \in OpenTags
    THEN LET j == FindFrom(s, CloseTagOf(s[i]), i + 1)
         IN  <<[tag |-> ElementOf(s[i]), has_src |-> FALSE,
                text |-> DecodeRefs(SubSeq(s, i + 1, j - 1))]>>
             \o ParseFrom(s, j + 1)
  ELSE <<[tag |-> "text", has_src |-> FALSE, text |-> DecodeRefs(<<s[i]>>)]>>
       \o ParseFrom(s, i + 1)

\* Html::parse_document(html)
ParseDocument(s) == ParseFrom(s, 1)

RECURSIVE SelectTag(_, _)
\* document.select(&Selector::parse(tag)): the elements named tag, in
\* document order.
SelectTag(doc, tag) ==
  IF doc = <<>> THEN <<>>
  ELSE IF Head(doc).tag = tag THEN <<Head(doc)>> \o SelectTag(Tail(doc), tag)
  ELSE SelectTag(Tail(doc), tag)

----------------------------------------------------------------------------
(* html2md::parse_html, the external converter, on the documents of the    *)
(* model: one block per element, blocks separated by an empty line; an     *)
(* image is ![](src), an h1 is underlined, an h3 is hashed.                *)

MdImage(src) == <<"!","[","]","(">> \o src \o <<")">>
MdUnderline  == <<"=","=","=">>

MdBlock(node) ==
  CASE node.tag = "img" -> IF node.has_src THEN MdImage(node.text) ELSE <<>>
    [] node.tag = "h1"  -> Trim(node.text) \o <<"\n">> \o MdUnderline
    [] node.tag = "h3"  -> <<"#","#","#"," ">> \o Trim(node.text)
    [] OTHER            -> node.text

\* html2md::parse_html(html)
parse_html(html) ==
  LET doc == ParseDocument(html)
  IN  JoinWith([i \in 1..Len(doc) |-> MdBlock(doc[i])], <<"\n","\n">>)

----------------------------------------------------------------------------
(* The filesystem: dirs is the set of paths that are directories, files    *)
(* maps the paths that are regular files to their content.  The path <<>>  *)
(* is config.output_dir.                                                   *)

OutputDir == <<>>

\* Path::components of a relative path text: the pieces between '/',
\* without the empty ones and the "." ones.
Components(f) ==
  LET pieces == Split(f, "/")
      Keep(c) == c # <<>> /\ c # <<".">>
      RECURSIVE Kept(_)
      Kept(ps) == IF ps = <<>> THEN <<>>
                  ELSE IF Keep(Head(ps)) THEN <<Head(ps)>> \o Kept(Tail(ps))
                  ELSE Kept(Tail(ps))
  IN  Kept(pieces)

\* PathBuf::join of a path with a relative path text.
PathJoin(path, f) == path \o Components(f)

\* The directory a path lies in.
Parent(path) == SubSeq(path, 1, Len(path) - 1)

\* A variant of create_dir_all that makes a directory where a regular file
\* is in the way.
create_dir_all_over_files(ds, fls, path) ==
  LET Prefix(n) == SubSeq(path, 1, n)
  IN  [ok   |-> TRUE,
       dirs |-> ds \cup {Prefix(n) : n \in 0..Len(path)},
       made |-> {Prefix(n) : n \in 0..Len(path)} \ ds]

\* fs::create_dir_all(path): walks the path from the output directory down
\* and creates each missing directory; fails at the first component that
\* exists as a regular file, after creating the ones above it.
create_dir_all(ds, fls, path) ==
  LET Prefix(n) == SubSeq(path, 1, n)
      blocked   == {n \in 0..Len(path) : Prefix(n) \in DOMAIN fls}
      upto      == IF blocked = {} THEN Len(path)
                   ELSE (CHOOSE n \in blocked : \A m \in blocked : n <= m) - 1
  IN  [ok   |-> blocked = {},
       dirs |-> ds \cup {Prefix(n) : n \in 0..upto},
       made |-> {Prefix(n) : n \in 0..upto} \ ds]

\* fs::write(path, data): creates the file or replaces its content; fails
\* when the directory it lies in does not exist, or the path is a directory.
fs_write(ds, fls, path, data) ==
  IF Parent(path) \in ds /\ path \notin ds
  THEN [ok |-> TRUE,
        files |-> [q \in DOMAIN fls \cup {path} |->
                     IF q = path THEN data ELSE fls[q]]]
  ELSE [ok |-> FALSE, files |-> fls]

----------------------------------------------------------------------------
(* get_note_path and the two file names *)

\* A variant of get_note_path that honours subdir_format.
get_note_path_by_format(note, config) ==
  IF config.use_subdirs
  THEN PathJoin(config.output_dir,
                IF config.subdir_format = "&account" THEN note.account
                ELSE note.folder)
  ELSE config.output_dir

\* get_note_path(note, config)
get_note_path(note, config) ==
  IF config.use_subdirs THEN PathJoin(config.output_dir, note.folder)
  ELSE config.output_dir

\* char::is_alphanumeric, on the characters of the model.
IsAlphanumeric(c) ==
  \/ \E i \in 1..62 : B64Alphabet[i] = c     \* the ASCII letters and digits
  \/ c = "é"

\* A variant of the sanitization that lets a run of replaced characters
\* become one hyphen.
safe_title_collapsing(title) ==
  LET Bad(i) == ~IsAlphanumeric(title[i]) /\ title[i] # "-"
      RECURSIVE From(_)
      From(i) == IF i > Len(title) THEN <<>>
                 ELSE IF Bad(i) /\ i > 1 /\ Bad(i - 1) THEN From(i + 1)
                 ELSE <<IF Bad(i) THEN "-" ELSE title[i]>> \o From(i + 1)
  IN  From(1)

\* save_note: note.title.replace(|c| !c.is_alphanumeric() && c != '-', "-")
save_note_safe_title(title) ==
  [i \in 1..Len(title) |->
     IF ~IsAlphanumeric(title[i]) /\ title[i] # "-" THEN "-" ELSE title[i]]

\* save_html: note.title.replace(|c| !c.is_alphanumeric() && c != '-', "-")
save_html_safe_title(title) ==
  [i \in 1..Len(title) |->
     IF ~IsAlphanumeric(title[i]) /\ title[i] # "-" THEN "-" ELSE title[i]]

\* A variant of Quoted that leaves the quotes out.
QuotedBare(key, value) == key \o <<":"," ">> \o value \o <<"\n">>

\* save_note: the frontmatter followed by the markdown.
Quoted(key, value) == key \o <<":"," ","\"">> \o value \o <<"\"","\n">>
NoteFileContent(note, markdown) ==
  <<"-","-","-","\n">>
  \o Quoted(<<"t","i","t","l","e">>, note.title)
  \o Quoted(<<"f","o","l","d","e","r">>, note.folder)
  \o Quoted(<<"a","c","c","o","u","n","t">>, note.account)
  \o Quoted(<<"i","d">>, note.id)
  \o Quoted(<<"c","r","e","a","t","e","d">>, note.created)
  \o Quoted(<<"m","o","d","i","f","i","e","d">>, note.modified)
  \o <<"-","-","-","\n","\n">>
  \o markdown

----------------------------------------------------------------------------
(* extract_and_save_images, one image at a time *)

\* The attachments directory of a note directory.
AttachmentsDir(output_dir, use_attachments) ==
  IF use_attachments THEN Append(output_dir, TxtAttachments) ELSE output_dir

\* A variant of CreatesAttachmentsDir that creates the directory always.
CreatesAttachmentsDirAlways(use_attachments) == TRUE

\* Whether the attachments directory is created before the loop.
CreatesAttachmentsDir(use_attachments) == use_attachments

\* The format named by the header of a data URL: the text between the
\* first '/' and the next ';', "png" when there is no '/'.
ImageFormat(header) ==
  LET by_slash == Split(header, "/")
  IN  IF Len(by_slash) >= 2 THEN Split(by_slash[2], ";")[1] ELSE TxtPng

\* The decimal digits of a natural number.
RECURSIVE Digits(_)
Digit(d) == <<"0","1","2","3","4","5","6","7","8","9">>[d + 1]
Digits(n) == IF n < 10 THEN <<Digit(n)>> ELSE Append(Digits(n \div 10), Digit(n % 10))

\* The width of the counter in a file name.
PadWidth == 3

\* format!("{:03}", n)
RECURSIVE ZeroPad(_, _)
ZeroPad(ds, width) == IF Len(ds) >= width THEN ds ELSE ZeroPad(<<"0">> \o ds, width)

\* format!("attachment-{:03}.{}", img_counter, format)
AttachmentName(img_counter, format) ==
  TxtAttachment \o ZeroPad(Digits(img_counter), PadWidth) \o <<".">> \o format

\* The reference written into the HTML for a saved image.
NewSrc(filename, use_attachments) ==
  IF use_attachments THEN TxtAttachments \o <<"/">> \o filename ELSE filename

\* A variant of InitialCounter that goes on counting from the note before.
InitialCounterKept(previous) == previous

\* let mut img_counter = 0: the counter at the start of a note's extraction,
\* whatever it was at the end of the one before.
InitialCounter(previous) == 0

\* Whether the loop body looks at an img element at all.
IsDataImage(img) == img.has_src /\ StartsWith(img.text, TxtDataImage)

----------------------------------------------------------------------------
(* process_note: the Markdown returned for a note *)

TxtH1 == <<"<h1>">>

\* A variant of RepairApplies that looks at the parsed document only.
RepairAppliesToAnyH1(content, h1_texts) ==
  /\ h1_texts # <<>>
  /\ Trim(Concat(h1_texts)) # <<>>

\* The condition under which process_note rewrites the headings.
RepairApplies(content, h1_texts) ==
  /\ Contains(content, TxtH1)
  /\ h1_texts # <<>>
  /\ Trim(Concat(h1_texts)) # <<>>

\* process_note, from the converted Markdown on: content is note.content,
\* html the HTML with the local images.
RepairHeadings(content, html, markdown) ==
  LET h1s      == SelectTag(ParseDocument(html), "h1")
      h1_texts == [i \in 1..Len(h1s) |-> h1s[i].text]
  IN  IF RepairApplies(content, h1_texts)
      THEN <<"#"," ">> \o Trim(Concat(h1_texts)) \o <<"\n","\n">>
           \o JoinWith(FilterNotHash(Lines(markdown)), <<"\n">>)
      ELSE markdown

----------------------------------------------------------------------------
(* The inputs: the notes the note source returns, the configuration and    *)
(* the tree found under the output directory.                              *)

TxtBase64 == <<";","b","a","s","e","6","4">>
TxtWork   == <<"W","o","r","k">>
TxtHome   == <<"H","o","m","e">>

Img(src)   == <<TagImgSrc>> \o src \o <<TagImgEnd>>
Elem(tag, text) == <<tag>> \o text \o <<CloseTagOf(tag)>>

\* data:image/png;base64,QUJD (the bytes 65 66 67)
UrlPng  == TxtDataImage \o <<"/">> \o TxtPng \o TxtBase64 \o <<",","Q","U","J","D">>
\* data:image/jpeg;base64,QQ== (the byte 65)
UrlJpeg == TxtDataImage \o <<"/","j","p","e","g">> \o TxtBase64 \o <<",","Q","Q","=","=">>
\* data:image/png;base64,QUJ (no base64: three characters)
UrlBad  == TxtDataImage \o <<"/">> \o TxtPng \o TxtBase64 \o <<",","Q","U","J">>
\* data:image;base64,QQ== (no subtype)
UrlNoSubtype == TxtDataImage \o TxtBase64 \o <<",","Q","Q","=","=">>

MkNote(title, folder, id, content) ==
  [title |-> title, content |-> content, folder |-> folder,
   account |-> <<"i","C">>, id |-> id, created |-> <<"c">>, modified |-> <<"m">>]

NotePool ==
  { \* the text <h1> in a comment only, an img without src and an img with
    \* a remote src
    \* (its account has a double quote)
    [MkNote(<<"M","y",":"," ","N","o","t","e","!">>, TxtWork, <<"1">>,
            <<TagComment, "<h1>", TagCommentEnd>> \o Elem("<h3>", <<"s">>)
            \o <<TagImgBare>> \o Img(<<"a",".","p","n","g">>))
       EXCEPT !.account = <<"i","\"","C">>],
    \* one inline image
    MkNote(<<"A"," ","b">>, TxtWork, <<"2">>,
           Elem("<p>", <<"t">>) \o Img(UrlPng)),
    \* an image, then one whose payload is no base64
    MkNote(<<"A","-","b">>, TxtWork, <<"3">>,
           Img(UrlJpeg) \o Img(UrlBad)),
    \* a data URL with two commas, then the data URL it starts with
    MkNote(<<"N","2">>, TxtHome, <<"4">>,
           Img(UrlPng \o <<",","x">>) \o Img(UrlPng)),
    \* an h1 element written with an attribute, and one inline image whose
    \* comma is written as a character reference
    MkNote(<<"é","1">>, <<>>, <<"5">>,
           Elem("<h1 id=t>", <<"A">>) \o Elem("<h3>", <<"s">>)
           \o Img(TxtDataImage \o <<"/">> \o TxtPng \o TxtBase64
                  \o <<RefComma,"Q","U","J","D">>)),
    \* two h1 elements, an h3 and a paragraph that starts with '#'
    \* (its modification date has a line break)
    [MkNote(<<"T">>, TxtHome, <<"6">>,
            Elem("<h1>", <<"A">>) \o Elem("<p>", <<"c">>)
            \o Elem("<h1>", <<"B"," ">>) \o Elem("<h3>", <<"s">>)
            \o Elem("<p>", <<"#","x">>))
       EXCEPT !.modified = <<"m","\n","x">>],
    \* an h1 whose text has a line break
    MkNote(<<"t","-","1">>, TxtWork \o <<"/">> \o TxtHome, <<"7">>,
           Elem("<h1>", <<"A","\n","#","b">>) \o Elem("<p>", <<"c">>)),
    \* an h1 with blank text
    MkNote(<<"b","-","-","2">>, TxtHome, <<"8">>,
           Elem("<h1>", <<" ">>) \o Elem("<h3>", <<"s">>)),
    \* two inline images, the first without a subtype
    MkNote(<<"2","/","2">>, TxtWork, <<"9">>,
           Img(UrlNoSubtype) \o Img(UrlPng)) }

\* ExportConfig: the two switches in every combination with the default
\* format strings, and with other format strings where the switches agree.
DefaultFormats == <<"&title", "&folder">>
OtherFormats   == <<"&id", "&account">>
Configs ==
  { [output_dir |-> OutputDir, use_attachments |-> c[1], use_subdirs |-> c[2],
     filename_format |-> c[3][1], subdir_format |-> c[3][2]] :
    c \in {x \in BOOLEAN \X BOOLEAN \X {DefaultFormats, OtherFormats} :
             x[3] = OtherFormats => x[1] = x[2]} }

\* The tree before the run: nothing at all, or one left by earlier use,
\* with the folder Work, a note file in it, and a regular file named Home.
OldContent == <<"o","l","d">>
TreeDirs(t) ==
  IF t = "fresh" THEN {} ELSE {OutputDir, <<TxtWork>>}
TreeFiles(t) ==
  IF t = "fresh" THEN << >>
  ELSE [q \in {<<TxtWork, <<"A","-","b">> \o TxtMdExt>>, <<TxtHome>>} |-> OldContent]

----------------------------------------------------------------------------
(* The state *)

VARIABLES
  config,         \* the ExportConfig of the run
  notes,          \* what get_notes returns
  tree,           \* which tree the run started from
  dirs, files,    \* the filesystem under config.output_dir
  pc,             \* where export_notes is
  idx,            \* the note of the for loop, 1-based; 0 before the loop
  output_dir,     \* extract_and_save_images: its output_dir argument
  imgs,           \* extract_and_save_images: document.select(img)
  k,              \* extract_and_save_images: the next element of imgs
  img_counter,    \* extract_and_save_images
  modified_html,  \* extract_and_save_images
  html,           \* process_note: html_with_local_images
  markdown,       \* export_notes: the Markdown process_note returned
  log,            \* history: every directory and file created or written
  err             \* the error export_notes returned, if any

vars == <<config, notes, tree, dirs, files, pc, idx, output_dir, imgs, k,
          img_counter, modified_html, html, markdown, log, err>>

locals == <<output_dir, imgs, k, img_counter, modified_html>>

NoError == [note |-> 0, stage |-> "none", kind |-> "none", log_len |-> 0]

Init ==
  /\ config \in Configs
  /\ notes \in UNION {[1..n -> NotePool] : n \in 0..MaxNotes}
  /\ tree \in {"fresh", "used"}
  /\ dirs = TreeDirs(tree)
  /\ files = TreeFiles(tree)
  /\ pc = "start"
  /\ idx = 0
  /\ output_dir = OutputDir
  /\ imgs = <<>>
  /\ k = 1
  /\ img_counter = 0
  /\ modified_html = <<>>
  /\ html = <<>>
  /\ markdown = <<>>
  /\ log = <<>>
  /\ err = NoError

----------------------------------------------------------------------------
(* Control flow *)

\* A variant of StageAfter that writes the .md before the .html.
StageAfterNoteFirst(stage) ==
  CASE stage = "extract"   -> "convert"
    [] stage = "convert"   -> "save_note"
    [] stage = "save_note" -> "save_html"
    [] stage = "save_html" -> "next_note"

\* process_note and export_notes: what follows each step of a note.
StageAfter(stage) ==
  CASE stage = "extract"   -> "save_html"
    [] stage = "save_html" -> "convert"
    [] stage = "convert"   -> "save_note"
    [] stage = "save_note" -> "next_note"

\* A variant of AfterError that gives up the note and goes on with the next.
AfterErrorSkipNote == "next_note"

\* The ? operator in export_notes and below: the error leaves the for loop
\* and export_notes returns it.
AfterError == "failed"

\* The record of a write, for the history.
Written(stage, kind, path, n) ==
  [note |-> idx, stage |-> stage, kind |-> kind, path |-> path, n |-> n]

\* The directories create_dir_all made, parents first.
RECURSIVE MadeDirs(_, _)
MadeDirs(made, stage) ==
  IF made = {} THEN <<>>
  ELSE LET d == CHOOSE x \in made : \A y \in made : Len(x) <= Len(y)
       IN  <<Written(stage, "dir", d, 0)>> \o MadeDirs(made \ {d}, stage)

\* An error is returned: nothing else of the state changes.
Fail(stage, kind, new_log) ==
  /\ pc' = AfterError
  /\ err' = [note |-> idx, stage |-> stage, kind |-> kind, log_len |-> Len(new_log)]
  /\ log' = new_log

----------------------------------------------------------------------------
(* export_notes *)

Note == notes[idx]

\* export_notes up to the for loop: the output directory is created and
\* get_notes returns the notes.
export_notes_begin ==
  /\ pc = "start"
  /\ LET r == create_dir_all(dirs, files, config.output_dir)
         l == log \o MadeDirs(r.made, "begin")
     IN  /\ dirs' = r.dirs
         /\ IF r.ok
            THEN /\ pc' = "next_note"
                 /\ log' = l
                 /\ err' = err
            ELSE Fail("begin", "create_dir", l)
  /\ UNCHANGED <<config, notes, tree, files, idx, locals, html, markdown>>

\* for note in &notes: the next note, or Ok(notes) after the last one.
next_note ==
  /\ pc = "next_note"
  /\ IF idx < Len(notes)
     THEN /\ idx' = idx + 1
          /\ pc' = "extract"
     ELSE /\ idx' = idx
          /\ pc' = "done"
  /\ UNCHANGED <<config, notes, tree, dirs, files, locals, html, markdown,
                 log, err>>

\* extract_and_save_images up to its loop, called by process_note with the
\* note's content and directory.
extract_begin ==
  /\ pc = "extract"
  /\ LET dir == get_note_path(Note, config)
         att == AttachmentsDir(dir, config.use_attachments)
         r   == IF CreatesAttachmentsDir(config.use_attachments)
                THEN create_dir_all(dirs, files, att)
                ELSE [ok |-> TRUE, dirs |-> dirs, made |-> {}]
         l   == log \o MadeDirs(r.made, "extract")
     IN  /\ output_dir' = dir
         /\ imgs' = SelectTag(ParseDocument(Note.content), "img")
         /\ modified_html' = Note.content
         /\ img_counter' = InitialCounter(img_counter)
         /\ k' = 1
         /\ dirs' = r.dirs
         /\ IF r.ok
            THEN /\ pc' = "extract_loop"
                 /\ log' = l
                 /\ err' = err
            ELSE Fail("extract", "create_dir", l)
  /\ UNCHANGED <<config, notes, tree, files, idx, html, markdown>>

\* One pass of the loop over the img elements.
extract_image ==
  /\ pc = "extract_loop"
  /\ k <= Len(imgs)
  /\ k' = k + 1
  /\ LET img == imgs[k]
         src == img.text
         counter == img_counter + 1
         parts == Split(src, ",")
         format == ImageFormat(parts[1])
         image_data == B64Decode(parts[2])
         filename == AttachmentName(counter, format)
         image_path == Append(AttachmentsDir(output_dir, config.use_attachments),
                              filename)
         w == fs_write(dirs, files, image_path, image_data.bytes)
         new_src == NewSrc(filename, config.use_attachments)
     IN  IF ~IsDataImage(img)
         THEN UNCHANGED <<img_counter, modified_html, files, pc, log, err>>
         ELSE /\ img_counter' = counter
              /\ IF Len(parts) # 2
                 THEN UNCHANGED <<modified_html, files, pc, log, err>>
                 ELSE IF ~image_data.ok
                 THEN /\ Fail("extract", "decode", log)
                      /\ UNCHANGED <<modified_html, files>>
                 ELSE IF ~w.ok
                 THEN /\ Fail("extract", "write_image", log)
                      /\ UNCHANGED <<modified_html, files>>
                 ELSE /\ files' = w.files
                      /\ log' = Append(log, Written("extract", "img", image_path, counter))
                      /\ modified_html' = Replace(modified_html, src, new_src)
                      /\ UNCHANGED <<pc, err>>
  /\ UNCHANGED <<config, notes, tree, dirs, idx, output_dir, imgs, html, markdown>>

\* Ok(modified_html), which process_note names html_with_local_images.
extract_return ==
  /\ pc = "extract_loop"
  /\ k > Len(imgs)
  /\ html' = modified_html
  /\ pc' = StageAfter("extract")
  /\ UNCHANGED <<config, notes, tree, dirs, files, idx, locals, markdown, log, err>>

\* save_html(note, html_with_local_images, config)
save_html ==
  /\ pc = "save_html"
  /\ LET dir  == get_note_path(Note, config)
         r    == create_dir_all(dirs, files, dir)
         l    == log \o MadeDirs(r.made, "save_html")
         path == Append(dir, save_html_safe_title(Note.title) \o TxtHtmlExt)
         w    == fs_write(r.dirs, files, path, html)
     IN  /\ dirs' = r.dirs
         /\ IF ~r.ok
            THEN /\ Fail("save_html", "create_dir", l)
                 /\ files' = files
            ELSE IF ~w.ok
            THEN /\ Fail("save_html", "write_file", l)
                 /\ files' = files
            ELSE /\ files' = w.files
                 /\ log' = Append(l, Written("save_html", "html", path, 0))
                 /\ pc' = StageAfter("save_html")
                 /\ err' = err
  /\ UNCHANGED <<config, notes, tree, idx, locals, html, markdown>>

\* process_note from the conversion on: html2md, then the h1 repair.
convert ==
  /\ pc = "convert"
  /\ markdown' = RepairHeadings(Note.content, html, parse_html(html))
  /\ pc' = StageAfter("convert")
  /\ UNCHANGED <<config, notes, tree, dirs, files, idx, locals, html, log, err>>

\* save_note(note, &markdown, config)
save_note ==
  /\ pc = "save_note"
  /\ LET dir  == get_note_path(Note, config)
         r    == create_dir_all(dirs, files, dir)
         l    == log \o MadeDirs(r.made, "save_note")
         path == Append(dir, save_note_safe_title(Note.title) \o TxtMdExt)
         w    == fs_write(r.dirs, files, path, NoteFileContent(Note, markdown))
     IN  /\ dirs' = r.dirs
         /\ IF ~r.ok
            THEN /\ Fail("save_note", "create_dir", l)
                 /\ files' = files
            ELSE IF ~w.ok
            THEN /\ Fail("save_note", "write_file", l)
                 /\ files' = files
            ELSE /\ files' = w.files
                 /\ log' = Append(l, Written("save_note", "md", path, 0))
                 /\ pc' = StageAfter("save_note")
                 /\ err' = err
  /\ UNCHANGED <<config, notes, tree, idx, locals, html, markdown>>

Next ==
  \/ export_notes_begin
  \/ next_note
  \/ extract_begin
  \/ extract_image
  \/ extract_return
  \/ save_html
  \/ convert
  \/ save_note

Spec == Init /\ [][Next]_vars

----------------------------------------------------------------------------
(* Vocabulary of the properties *)

\* The history entries of note i, and those of its image extraction.
NoteLog(i)    == {j \in 1..Len(log) : log[j].note = i}
ExtractLog(i) == {j \in NoteLog(i) : log[j].stage = "extract"}
FileLog       == {j \in 1..Len(log) : log[j].kind # "dir"}

\* The img elements of a note body.
ImgsOf(content) == SelectTag(ParseDocument(content), "img")

\* extract_and_save_images has ended for the current note: it returned the
\* HTML, or an error.
ExtractionReturned == idx >= 1 /\ pc = "save_html"
ExtractionFailed   == idx >= 1 /\ pc = "failed" /\ err.note = idx /\ err.stage = "extract"

\* The directory the current note's images go to.
TargetDir ==
  IF config.use_attachments
  THEN Append(get_note_path(Note, config), TxtAttachments)
  ELSE get_note_path(Note, config)

----------------------------------------------------------------------------
(* C1 *)

\* C1: the first error raised while processing a note aborts the run:
\* export_notes returns the error, nothing is created or written after it,
\* no later note is touched, and when the error came from the image
\* extraction the failing note's .html and .md were not written.
C1_FirstErrorAborts ==
  /\ pc = "failed" <=> err # NoError
  /\ err # NoError =>
       /\ idx = err.note
       /\ Len(log) = err.log_len
       /\ \A j \in 1..Len(log) : log[j].note <= err.note
       /\ err.stage = "extract" =>
            \A j \in NoteLog(err.note) : log[j].kind \notin {"html", "md"}

\* A run that failed in the base64 decoding of a note's second image, after
\* the first image was saved, with a later note left unprocessed.
C1_Witness ==
  /\ pc = "failed"
  /\ err.kind = "decode"
  /\ err.note < Len(notes)
  /\ \E j \in NoteLog(err.note) : log[j].kind = "img"

----------------------------------------------------------------------------
(* C2 *)

KindRank(kind) == CASE kind = "img" -> 1 [] kind = "html" -> 2 [] kind = "md" -> 3

\* The img elements the extraction saves when it succeeds: the data images
\* whose src has exactly two comma-separated parts.
SavedImageCount(content) ==
  LET is == ImgsOf(content)
  IN  Cardinality({n \in 1..Len(is) :
                     IsDataImage(is[n]) /\ Len(Split(is[n].text, ",")) = 2})

\* C2: notes are processed one after another in the order of the note
\* source: the files of a note are written images first, then the .html,
\* then the .md, all before any file of the next note; a note whose .md was
\* written has its .html and all its extracted images written.
C2_NotesInOrder ==
  /\ \A a, b \in FileLog :
       a < b =>
         \/ log[a].note < log[b].note
         \/ /\ log[a].note = log[b].note
            /\ \/ KindRank(log[a].kind) < KindRank(log[b].kind)
               \/ log[a].kind = "img" /\ log[b].kind = "img"
  /\ \A b \in FileLog :
       log[b].kind = "md" =>
         /\ \E a \in NoteLog(log[b].note) : a < b /\ log[a].kind = "html"
         /\ Cardinality({a \in NoteLog(log[b].note) : a < b /\ log[a].kind = "img"})
              = SavedImageCount(notes[log[b].note].content)

\* A finished run of two notes, the second with two images.
C2_Witness ==
  /\ pc = "done"
  /\ Len(notes) = 2
  /\ \E j \in NoteLog(1) : log[j].kind = "md"
  /\ Cardinality({j \in NoteLog(2) : log[j].kind = "img"}) = 2
  /\ \E j \in NoteLog(2) : log[j].kind = "md"

----------------------------------------------------------------------------
(* C3 *)

TxtDataImageSlash == TxtDataImage \o <<"/">>

\* A well-formed base64 data URL of type image/<subtype>: the header
\* data:image/<subtype>;base64, one comma, a payload that is base64.
WellFormedDataUrl(src) ==
  LET parts == Split(src, ",")
      head  == parts[1]
      n     == Len(head)
  IN  /\ Len(parts) = 2
      /\ StartsWith(head, TxtDataImageSlash)
      /\ n > Len(TxtDataImageSlash) + Len(TxtBase64)
      /\ SubSeq(head, n - Len(TxtBase64) + 1, n) = TxtBase64
      /\ B64Decode(parts[2]).ok

\* Its subtype.
SubtypeOf(src) ==
  LET head == Split(src, ",")[1]
  IN  SubSeq(head, Len(TxtDataImageSlash) + 1, Len(head) - Len(TxtBase64))

\* The body has exactly one img element, and its src is such a URL.
OneInlineImage(content) ==
  LET is == ImgsOf(content)
  IN  Len(is) = 1 /\ is[1].has_src /\ WellFormedDataUrl(is[1].text)

\* The name the claim gives the file, and the reference it gives the HTML.
C3_FileName(content) ==
  TxtAttachment \o <<"0","0","1",".">> \o SubtypeOf(ImgsOf(content)[1].text)
C3_Reference(content) ==
  IF config.use_attachments
  THEN TxtAttachments \o <<"/">> \o C3_FileName(content)
  ELSE C3_FileName(content)

\* C3: for a body with exactly one img element whose src is a well-formed
\* base64 data URL of type image/<subtype>, run on a tree that was empty
\* before the run, the extraction returns the HTML and has written exactly
\* one image file, attachment-001.<subtype> in the target directory; the
\* img of the returned HTML, and the image of the Markdown, refer to
\* attachments/attachment-001.<subtype> with use_attachments and to
\* attachment-001.<subtype> without.
C3_OneInlineImage ==
  (idx >= 1 /\ tree = "fresh" /\ OneInlineImage(Note.content)) =>
    /\ ~ExtractionFailed
    /\ ExtractionReturned =>
         /\ {log[j].path : j \in {x \in ExtractLog(idx) : log[x].kind = "img"}}
              = {Append(TargetDir, C3_FileName(Note.content))}
         /\ Append(TargetDir, C3_FileName(Note.content)) \in DOMAIN files
         /\ ImgsOf(html)[1].text = C3_Reference(Note.content)
    /\ pc = "save_note" =>
         Contains(markdown, MdImage(C3_Reference(Note.content)))

----------------------------------------------------------------------------
(* C4 *)

\* The body has no img element whose src starts with data:image.
NoInlineImage(content) ==
  \A n \in 1..Len(ImgsOf(content)) : ~IsDataImage(ImgsOf(content)[n])

\* C4: for a body without an img whose src starts with data:image the
\* extraction writes no image file and returns the HTML as it was; with
\* use_attachments the attachments directory of the note directory exists
\* when it returns; without use_attachments it cannot fail and creates no
\* directory.
C4_NoInlineImage ==
  ((ExtractionReturned \/ ExtractionFailed) /\ NoInlineImage(Note.content)) =>
    /\ \A j \in ExtractLog(idx) : log[j].kind # "img"
    /\ ExtractionReturned =>
         /\ html = Note.content
         /\ config.use_attachments =>
              Append(get_note_path(Note, config), TxtAttachments) \in dirs
    /\ ~config.use_attachments =>
         /\ ExtractionReturned
         /\ ExtractLog(idx) = {}

\* The extraction of such a body has returned with use_attachments set, and
\* the attachments directory it created is empty.
C4_Witness ==
  /\ ExtractionReturned
  /\ NoInlineImage(Note.content)
  /\ config.use_attachments
  /\ html = Note.content
  /\ \E j \in ExtractLog(idx) :
       /\ log[j].kind = "dir"
       /\ log[j].path = Append(get_note_path(Note, config), TxtAttachments)
  /\ \A f \in DOMAIN files :
       Parent(f) # Append(get_note_path(Note, config), TxtAttachments)

----------------------------------------------------------------------------
(* C5 *)

\* C5: on a tree that holds only the output directory, the write of a
\* note's first image never fails for want of its target directory,
\* whatever use_attachments and use_subdirs are.
C5_TargetDirExists ==
  (tree = "fresh" /\ idx = 1) =>
    ~(ExtractionFailed /\ err.kind = "write_image" /\ TargetDir \notin dirs)

----------------------------------------------------------------------------
(* C6 *)

\* The number the loop gives the n-th img element of a body.
CounterOf(is, n) == Cardinality({m \in 1..n : IsDataImage(is[m])})

\* C6: when the extraction returns, every img whose data:image src does not
\* split into exactly two parts at the commas has in the returned HTML the
\* src it had in the body, and no file was written under its number.
C6_MalformedUntouched ==
  ExtractionReturned =>
    LET before == ImgsOf(Note.content)
        after  == ImgsOf(html)
    IN  \A n \in 1..Len(before) :
          (IsDataImage(before[n]) /\ Len(Split(before[n].text, ",")) # 2) =>
            /\ Len(after) = Len(before)
            /\ after[n].text = before[n].text
            /\ \A j \in ExtractLog(idx) :
                 log[j].kind = "img" => log[j].n # CounterOf(before, n)

----------------------------------------------------------------------------
(* C7, C8 *)

\* The texts of the h1 elements of the HTML with the local images, joined
\* and trimmed.
JoinedH1(h) ==
  LET h1s == SelectTag(ParseDocument(h), "h1")
  IN  Trim(Concat([i \in 1..Len(h1s) |-> h1s[i].text]))

\* The heading repair fires: the note's content holds the text <h1>, the
\* rewritten HTML has an h1 element, and the joined h1 text is not blank.
RepairFires ==
  /\ \E i \in 1..Len(Note.content) : Note.content[i] = "<h1>"
  /\ SelectTag(ParseDocument(html), "h1") # <<>>
  /\ JoinedH1(html) # <<>>

\* process_note has returned the Markdown of the current note.
MarkdownReturned == idx >= 1 /\ pc = "save_note"

\* C7: when the heading repair fires, the Markdown is "# " and the joined
\* h1 text, an empty line, and the converter's lines that do not begin
\* with '#', in order; its first line is "# " and the whole joined text,
\* its second line is empty, and no later line begins with '#'.
C7_RepairedHeading ==
  (MarkdownReturned /\ RepairFires) =>
    LET ls == Lines(markdown)
    IN  /\ markdown = <<"#"," ">> \o JoinedH1(html) \o <<"\n","\n">>
                      \o JoinWith(FilterNotHash(Lines(parse_html(html))), <<"\n">>)
        /\ Len(ls) >= 2
        /\ ls[1] = <<"#"," ">> \o JoinedH1(html)
        /\ ls[2] = <<>>
        /\ \A i \in 2..Len(ls) : ~StartsWithHash(ls[i])

\* C8: when the heading repair does not fire, process_note returns the
\* converter's Markdown as it is, lines that begin with '#' included.
C8_NoRepair ==
  (MarkdownReturned /\ ~RepairFires) => markdown = parse_html(html)

\* The content holds the text <h1> but the document has no h1 element, and
\* the Markdown returned keeps a line that begins with '#'.
C8_Witness ==
  /\ MarkdownReturned
  /\ \E i \in 1..Len(Note.content) : Note.content[i] = "<h1>"
  /\ SelectTag(ParseDocument(html), "h1") = <<>>
  /\ \E i \in 1..Len(Lines(markdown)) : StartsWithHash(Lines(markdown)[i])
  /\ markdown = parse_html(html)

----------------------------------------------------------------------------
(* C9 *)

\* The file name of a history entry without its extension.
StemOf(e) ==
  LET name == e.path[Len(e.path)]
      ext  == IF e.kind = "html" THEN TxtHtmlExt ELSE TxtMdExt
  IN  SubSeq(name, 1, Len(name) - Len(ext))

\* C9: the stem of a note's .html and .md file is the title with every
\* character that is neither alphanumeric nor a hyphen replaced by one
\* hyphen and every other character kept: as long as the title, made of
\* alphanumerics and hyphens only, unchanged by another sanitization, and
\* the same for both files.
C9_Sanitization ==
  \A j \in FileLog :
    log[j].kind \in {"html", "md"} =>
      LET title == notes[log[j].note].title
          stem  == StemOf(log[j])
      IN  /\ Len(stem) = Len(title)
          /\ \A i \in 1..Len(title) :
               stem[i] = IF IsAlphanumeric(title[i]) \/ title[i] = "-"
                         THEN title[i] ELSE "-"
          /\ \A i \in 1..Len(stem) : IsAlphanumeric(stem[i]) \/ stem[i] = "-"
          /\ save_note_safe_title(stem) = stem
          /\ save_html_safe_title(stem) = stem
          /\ \A a \in FileLog :
               (log[a].note = log[j].note /\ log[a].kind \in {"html", "md"})
                 => StemOf(log[a]) = stem

\* The note titled "My: Note!" has its .html and its .md, both with the
\* stem "My--Note-".
C9_Witness ==
  \E a, b \in FileLog :
    /\ log[a].note = log[b].note
    /\ notes[log[a].note].title = <<"M","y",":"," ","N","o","t","e","!">>
    /\ log[a].kind = "html" /\ log[b].kind = "md"
    /\ StemOf(log[a]) = <<"M","y","-","-","N","o","t","e","-">>
    /\ StemOf(log[b]) = <<"M","y","-","-","N","o","t","e","-">>

----------------------------------------------------------------------------
(* C10 *)

\* The note directory the claim names.
C10_NoteDir(note) ==
  IF config.use_subdirs
  THEN config.output_dir \o Components(note.folder)
  ELSE config.output_dir

----------------------------------------------------------------------------
(* C11 *)

TxtRule == <<"-","-","-">>

\* The keys of the frontmatter, in the order of the file.
FrontmatterKeys ==
  << <<"t","i","t","l","e">>, <<"f","o","l","d","e","r">>,
     <<"a","c","c","o","u","n","t">>, <<"i","d">>,
     <<"c","r","e","a","t","e","d">>, <<"m","o","d","i","f","i","e","d">> >>

\* The values of a note, in the same order.
MetadataOf(note) ==
  <<note.title, note.folder, note.account, note.id, note.created, note.modified>>

\* Reading one line as key: "value": the text between the quote after the
\* key and the next quote, which has to end the line.
ReadValue(line, key) ==
  LET open == key \o <<":"," ","\"">>
      rest == SubSeq(line, Len(open) + 1, Len(line))
      q    == FindFrom(rest, "\"", 1)
  IN  IF StartsWith(line, open) /\ q = Len(rest)
      THEN [ok |-> TRUE, value |-> SubSeq(rest, 1, q - 1)]
      ELSE [ok |-> FALSE, value |-> <<>>]

\* The position of the n-th line feed of a text: 0 for n = 0, and one past
\* the end when there are fewer.
LineFeedAt(content, n) ==
  LET at == {i \in 1..Len(content) : content[i] = "\n"}
  IN  IF n = 0 THEN 0
      ELSE IF n > Cardinality(at) THEN Len(content) + 1
      ELSE CHOOSE p \in at : Cardinality({q \in at : q < p}) = n - 1

\* The n-th line of a text, without its line feed.
LineAt(content, n) ==
  SubSeq(content, LineFeedAt(content, n - 1) + 1, LineFeedAt(content, n) - 1)

\* Reading a .md file back: a "---" line, six key: "value" lines (the block
\* up to the next "---" line), an empty line, and the rest as the body.
ReadNoteFile(content) ==
  LET vals == [i \in 1..6 |-> ReadValue(LineAt(content, i + 1), FrontmatterKeys[i])]
  IN  IF /\ LineFeedAt(content, 9) <= Len(content)
         /\ LineAt(content, 1) = TxtRule
         /\ \A i \in 1..6 : vals[i].ok
         /\ LineAt(content, 8) = TxtRule
         /\ LineAt(content, 9) = <<>>
      THEN [ok |-> TRUE,
            values |-> [i \in 1..6 |-> vals[i].value],
            body |-> SubSeq(content, LineFeedAt(content, 9) + 1, Len(content))]
      ELSE [ok |-> FALSE, values |-> <<>>, body |-> <<>>]

\* save_note has just written the current note's .md file.
NoteSaved == idx >= 1 /\ pc = "next_note"
SavedPath ==
  Append(get_note_path(Note, config), save_note_safe_title(Note.title) \o TxtMdExt)

\* No value of the note holds one of the characters.
MetadataWithout(note, chars) ==
  \A i \in 1..6 : \A n \in 1..Len(MetadataOf(note)[i]) :
    MetadataOf(note)[i][n] \notin chars

\* Reading the file back gives the note's values and the Markdown.
RoundTrip ==
  LET r == ReadNoteFile(files[SavedPath])
  IN  /\ r.ok
      /\ r.values = MetadataOf(Note)
      /\ r.body = markdown

\* C11 as stated: for a note whose six values hold no double quote, the
\* .md file save_note wrote reads back as the six values, in the order
\* title, folder, account, id, created, modified, and the Markdown body.
C11_RoundTripAsStated ==
  (NoteSaved /\ MetadataWithout(Note, {"\""})) => RoundTrip

\* C11: for a note whose six values hold neither a double quote nor a line
\* break, the .md file save_note wrote reads back as the six values, in the
\* order title, folder, account, id, created, modified, and the text after
\* the block and one empty line is the Markdown body. (save_note writes a
\* value as it is, so a line break in it ends the value's line.)
C11_RoundTrip ==
  (NoteSaved /\ MetadataWithout(Note, {"\"", "\n"})) => RoundTrip

\* A note without such characters, with a title that is not its file name
\* and a Markdown body of several lines, has been saved and reads back.
C11_Witness ==
  /\ NoteSaved
  /\ MetadataWithout(Note, {"\"", "\n"})
  /\ Note.title # save_note_safe_title(Note.title)
  /\ Len(Lines(markdown)) >= 3
  /\ RoundTrip

----------------------------------------------------------------------------
(* C12 *)

\* What the step wrote: the entries it added to the log.
StepWrites == {log'[n] : n \in (Len(log) + 1)..Len(log')}

\* The step leaves every file and directory there is as it is.
KeepsTree ==
  /\ dirs \subseteq dirs'
  /\ \A f \in DOMAIN files : f \in DOMAIN files' /\ files'[f] = files[f]

\* The step writes only at paths where there is nothing yet.
WritesNewPaths ==
  \A e \in StepWrites : e.path \notin dirs /\ e.path \notin DOMAIN files

\* C12 as stated: the output tree is only appended to: every write creates
\* a new file or directory, and a file there is, written earlier in the run
\* or present before it, keeps its content.
C12_AppendOnly == [][KeepsTree /\ WritesNewPaths]_vars

\* The same for the runs that export notes of different ids into an output
\* directory with nothing in it, where the only files there are have been
\* written in the run.
C12_AppendOnlyFresh ==
  [][(/\ tree = "fresh"
      /\ \A i, j \in 1..Len(notes) : i # j => notes[i].id # notes[j].id)
     => (KeepsTree /\ WritesNewPaths)]_vars

\* C12: no entry of the output tree is removed: a directory there is stays,
\* every directory the run makes is new, and a file there is stays a
\* regular file, whose content changes only in a step that writes a file at
\* its path.
C12_EntriesKept ==
  [][/\ dirs \subseteq dirs'
     /\ \A e \in StepWrites : e.kind = "dir" => e.path \notin dirs
     /\ \A f \in DOMAIN files :
          /\ f \in DOMAIN files'
          /\ f \notin dirs'
          /\ files'[f] # files[f] =>
               \E e \in StepWrites : e.path = f /\ e.kind # "dir"]_vars

\* On the output directory that was used before: the .md file that was
\* there has been written over, and the regular file named like a folder
\* is kept, the note of that folder having failed on it.
C12_Witness ==
  LET old_md == <<TxtWork, <<"A","-","b">> \o TxtMdExt>>
  IN  /\ tree = "used"
      /\ old_md \in DOMAIN files /\ files[old_md] # OldContent
      /\ \E n \in 1..Len(log) : log[n].path = old_md /\ log[n].kind = "md"
      /\ <<TxtHome>> \in DOMAIN files /\ files[<<TxtHome>>] = OldContent
      /\ <<TxtHome>> \notin dirs
      /\ err # NoError /\ err.kind = "create_dir"

----------------------------------------------------------------------------
(* C13 *)

\* A number below 1000 written with three digits.
ThreeDigits(n) == <<Digit((n \div 100) % 10), Digit((n \div 10) % 10), Digit(n % 10)>>

\* The file names expected for the first n img elements of a body: one for
\* every data:image element that splits into two parts at the commas, under
\* the number the element has among the data:image elements.
RECURSIVE ExpectedNames(_, _)
ExpectedNames(is, n) ==
  IF n = 0 THEN <<>>
  ELSE LET parts == Split(is[n].text, ",")
       IN  IF IsDataImage(is[n]) /\ Len(parts) = 2
           THEN Append(ExpectedNames(is, n - 1),
                       TxtAttachment \o ThreeDigits(CounterOf(is, n))
                       \o <<".">> \o ImageFormat(parts[1]))
           ELSE ExpectedNames(is, n - 1)

\* The names of the image files written for note i, in the order written.
RECURSIVE ImageNamesUpTo(_, _)
ImageNamesUpTo(i, j) ==
  IF j = 0 THEN <<>>
  ELSE IF log[j].note = i /\ log[j].kind = "img"
  THEN Append(ImageNamesUpTo(i, j - 1), log[j].path[Len(log[j].path)])
  ELSE ImageNamesUpTo(i, j - 1)
ImageNames(i) == ImageNamesUpTo(i, Len(log))

\* The extraction of note i is under way, or has returned an error.
ExtractionOpen(i) ==
  /\ i = idx
  /\ \/ pc \in {"extract", "extract_loop"}
     \/ pc = "failed" /\ err.stage = "extract"

IsPrefix(s, t) == Len(s) <= Len(t) /\ s = SubSeq(t, 1, Len(s))

\* C13: the data:image img elements of a note are numbered 1, 2, 3, ... in
\* document order, the skipped malformed ones included, and the files
\* written for a note are, in that order, named attachment-<number in three
\* digits>.<ext> for the elements that are not skipped; the numbers start
\* again for every note, whatever the notes before it contained.
C13_Numbering ==
  \A i \in 1..idx :
    LET is       == ImgsOf(notes[i].content)
        expected == ExpectedNames(is, Len(is))
    IN  /\ IsPrefix(ImageNames(i), expected)
        /\ ~ExtractionOpen(i) => ImageNames(i) = expected

\* Two notes have been exported: two images were saved for the first, and
\* the second, whose first data:image element is skipped, has its one file
\* under the number 002.
C13_Witness ==
  /\ idx = 2
  /\ pc = "next_note"
  /\ err = NoError
  /\ Len(ImageNames(1)) = 2
  /\ Len(ImageNames(2)) = 1
  /\ ImageNames(2)[1] = TxtAttachment \o <<"0","0","2",".">> \o TxtPng

====
